---------------------------- MODULE Spec2Model ----------------------------
(***************************************************************************)
(* Model of Smart_Learning_System.py: the learner modelling engine         *)
(* (classify_learner, predict_next_difficulty, adapt_content), the cohort  *)
(* clustering (cluster_learners), feedback and recommendations, and the    *)
(* Streamlit session that drives them (learner selection, data import,     *)
(* the quiz flow of main()).                                               *)
(*                                                                         *)
(* Numbers.  accuracy and avg_time are Python floats.  They are kept here  *)
(* as exact fixed-point integers in units of 1/Scale, and a mean is never  *)
(* divided out: "np.mean(xs) < k" is compared as Sum(xs) < k*Scale*Len(xs).*)
(* Scale is the least common multiple of the question-list lengths 1, 2    *)
(* and 3 of the built-in catalog, so that correct/len*100 and the mean of  *)
(* whole-second answer times are exact.                                    *)
(*                                                                         *)
(* Streamlit.  Every widget interaction runs the script of main() from the *)
(* top; st.rerun() aborts the running script and runs it once more.  An    *)
(* action below is one interaction: the run in which the widget fires and, *)
(* where the handler calls st.rerun(), the run that follows.               *)
(***************************************************************************)
EXTENDS Integers, Sequences, FiniteSets, TLC

VARIABLES
    learners_data,          \* st.session_state.learners_data: name -> profile
    current_learner,        \* st.session_state.current_learner
    learner_selector,       \* value of the selectbox keyed "learner_selector"
    custom_questions_db,    \* st.session_state.custom_questions_db
    quiz_started,           \* st.session_state.quiz_started
    current_quiz,           \* st.session_state.current_quiz
    current_question_index, \* st.session_state.current_question_index
    call,                   \* engine function applied last (EngineSpec)
    returned,               \* the value that call returned (EngineSpec)
    previous                \* <<value>> returned by the call before, when it
                            \* was a call of the same function; <<>> otherwise

vars == <<learners_data, current_learner, learner_selector, custom_questions_db,
          quiz_started, current_quiz, current_question_index, call, returned,
          previous>>

session_vars == <<current_learner, learner_selector, custom_questions_db,
                  quiz_started, current_quiz, current_question_index>>

-----------------------------------------------------------------------------
(* Bounds and value domains                                                *)

Scale == 2 * 3

\* longest history drawn as an engine input
MaxLen == 4

\* total number of quiz records in the population the session may reach
MaxRecords == 15

\* hint requests per quiz
MaxHints == 1

None == "None"
NoQuiz == [none |-> TRUE]
NoQuestions == <<>>

Tiers == {"New Learner", "Struggling Learner", "Average Learner", "Advanced Learner"}
Difficulties == {"easy", "medium", "hard"}

\* a Quiz Record with accuracy a and avg_time t given in whole units
QuizRecord(a, t, h, r, topic) ==
    [accuracy |-> a * Scale, avg_time |-> t * Scale, hints_used |-> h,
     retries |-> r, topic |-> topic]

-----------------------------------------------------------------------------
(* Engine: classification, difficulty prediction, content adaptation       *)

RECURSIVE SumField(_, _)
SumField(quiz_history, field) ==
    IF quiz_history = <<>> THEN 0
    ELSE Head(quiz_history)[field] + SumField(Tail(quiz_history), field)

\* np.mean(values) compared with the whole number k, total = sum, n = len;
\* the mean of no values is nan, which compares false with every number
MeanLT(total, n, k) == n > 0 /\ total < k * Scale * n
MeanGT(total, n, k) == n > 0 /\ total > k * Scale * n
MeanGE(total, n, k) == n > 0 /\ total >= k * Scale * n

\* slip: total_hints >= 5
is_struggling_hints_from_5(quiz_history) ==
    LET n == Len(quiz_history)
    IN  /\ MeanLT(SumField(quiz_history, "accuracy"), n, 60)
        /\ \/ MeanGT(SumField(quiz_history, "avg_time"), n, 70)
           \/ SumField(quiz_history, "hints_used") >= 5

\* slip: avg_time > 70 and total_hints > 5
is_struggling_slow_and_hints(quiz_history) ==
    LET n == Len(quiz_history)
    IN  /\ MeanLT(SumField(quiz_history, "accuracy"), n, 60)
        /\ MeanGT(SumField(quiz_history, "avg_time"), n, 70)
        /\ SumField(quiz_history, "hints_used") > 5

\* avg_accuracy < 60 and (avg_time > 70 or total_hints > 5)
is_struggling(quiz_history) ==
    LET n == Len(quiz_history)
    IN  /\ MeanLT(SumField(quiz_history, "accuracy"), n, 60)
        /\ \/ MeanGT(SumField(quiz_history, "avg_time"), n, 70)
           \/ SumField(quiz_history, "hints_used") > 5

\* slip: avg_time < 25
is_advanced_under_25(quiz_history) ==
    LET n == Len(quiz_history)
    IN  /\ MeanGE(SumField(quiz_history, "accuracy"), n, 85)
        /\ MeanLT(SumField(quiz_history, "avg_time"), n, 25)
        /\ SumField(quiz_history, "hints_used") = 0

\* slip: avg_accuracy > 85
is_advanced_above_85(quiz_history) ==
    LET n == Len(quiz_history)
    IN  /\ MeanGT(SumField(quiz_history, "accuracy"), n, 85)
        /\ MeanLT(SumField(quiz_history, "avg_time"), n, 35)
        /\ SumField(quiz_history, "hints_used") = 0

\* slip: avg_accuracy >= 85 and avg_time < 35 or total_hints == 0
is_advanced_or_no_hints(quiz_history) ==
    LET n == Len(quiz_history)
    IN  \/ /\ MeanGE(SumField(quiz_history, "accuracy"), n, 85)
           /\ MeanLT(SumField(quiz_history, "avg_time"), n, 35)
        \/ SumField(quiz_history, "hints_used") = 0

\* avg_accuracy >= 85 and avg_time < 35 and total_hints == 0
is_advanced(quiz_history) ==
    LET n == Len(quiz_history)
    IN  /\ MeanGE(SumField(quiz_history, "accuracy"), n, 85)
        /\ MeanLT(SumField(quiz_history, "avg_time"), n, 35)
        /\ SumField(quiz_history, "hints_used") = 0

classify_learner(learner_data) ==
    LET quiz_history == learner_data.quiz_history
    IN  IF quiz_history = <<>> THEN "New Learner"
        ELSE IF is_struggling(quiz_history) THEN "Struggling Learner"
        ELSE IF is_advanced(quiz_history) THEN "Advanced Learner"
        ELSE "Average Learner"

\* slip: the window is quiz_history[-4:-1], the records before the last one
recent_performance_before_last(quiz_history) ==
    IF Len(quiz_history) >= 3
    THEN SubSeq(quiz_history,
                IF Len(quiz_history) > 3 THEN Len(quiz_history) - 3 ELSE 1,
                Len(quiz_history) - 1)
    ELSE quiz_history

\* slip: the window is the whole history
recent_performance_all(quiz_history) == quiz_history

\* quiz_history[-3:] if len(quiz_history) >= 3 else quiz_history
recent_performance(quiz_history) ==
    IF Len(quiz_history) >= 3
    THEN SubSeq(quiz_history, Len(quiz_history) - 2, Len(quiz_history))
    ELSE quiz_history

\* slip: a history of fewer than 2 records gives medium
predict_next_difficulty_medium_when_short(learner_data) ==
    LET quiz_history == learner_data.quiz_history
        recent       == recent_performance(quiz_history)
        n            == Len(recent)
        sum_accuracy == SumField(recent, "accuracy")
        sum_time     == SumField(recent, "avg_time")
    IN  IF Len(quiz_history) < 2 THEN "medium"
        ELSE IF MeanGE(sum_accuracy, n, 90) /\ MeanLT(sum_time, n, 35) THEN "hard"
        ELSE IF MeanGE(sum_accuracy, n, 70) /\ MeanLT(sum_time, n, 60) THEN "medium"
        ELSE "easy"

\* slip: a bare return for the empty history
predict_next_difficulty_none_when_new(learner_data) ==
    LET quiz_history == learner_data.quiz_history
        recent       == recent_performance(quiz_history)
        n            == Len(recent)
        sum_accuracy == SumField(recent, "accuracy")
        sum_time     == SumField(recent, "avg_time")
    IN  IF quiz_history = <<>> THEN None
        ELSE IF MeanGE(sum_accuracy, n, 90) /\ MeanLT(sum_time, n, 35) THEN "hard"
        ELSE IF MeanGE(sum_accuracy, n, 70) /\ MeanLT(sum_time, n, 60) THEN "medium"
        ELSE "easy"

\* slip: avg_time <= 60 in the medium branch
predict_next_difficulty_upto_60(learner_data) ==
    LET quiz_history == learner_data.quiz_history
        recent       == recent_performance(quiz_history)
        n            == Len(recent)
        sum_accuracy == SumField(recent, "accuracy")
        sum_time     == SumField(recent, "avg_time")
    IN  IF quiz_history = <<>> THEN "easy"
        ELSE IF MeanGE(sum_accuracy, n, 90) /\ MeanLT(sum_time, n, 35) THEN "hard"
        ELSE IF MeanGE(sum_accuracy, n, 70) /\ ~MeanGT(sum_time, n, 60) THEN "medium"
        ELSE "easy"

predict_next_difficulty(learner_data) ==
    LET quiz_history == learner_data.quiz_history
        recent       == recent_performance(quiz_history)
        n            == Len(recent)
        sum_accuracy == SumField(recent, "accuracy")
        sum_time     == SumField(recent, "avg_time")
    IN  IF quiz_history = <<>> THEN "easy"
        ELSE IF MeanGE(sum_accuracy, n, 90) /\ MeanLT(sum_time, n, 35) THEN "hard"
        ELSE IF MeanGE(sum_accuracy, n, 70) /\ MeanLT(sum_time, n, 60) THEN "medium"
        ELSE "easy"

\* slip: recent_accuracy <= 50
revision_override_upto_50(quiz_history) ==
    /\ quiz_history # <<>>
    /\ quiz_history[Len(quiz_history)].accuracy <= 50 * Scale

\* the override test of adapt_content on the most recent record
revision_override(quiz_history) ==
    /\ quiz_history # <<>>
    /\ quiz_history[Len(quiz_history)].accuracy < 50 * Scale

\* slip: provide_hints only for the Struggling tier
adapt_content_hints_struggling(learner_data) ==
    LET classification == learner_data.classification
        quiz_history   == learner_data.quiz_history
        adaptations ==
            [difficulty            |-> predict_next_difficulty(learner_data),
             content_format        |-> IF classification = "Struggling Learner"
                                       THEN "visual" ELSE "text",
             enable_challenge_mode |-> classification = "Advanced Learner",
             provide_hints         |-> classification = "Struggling Learner",
             revision_needed       |-> FALSE]
    IN  IF revision_override(quiz_history)
        THEN [adaptations EXCEPT !.revision_needed = TRUE, !.difficulty = "easy"]
        ELSE adaptations

adapt_content(learner_data) ==
    LET classification == learner_data.classification
        quiz_history   == learner_data.quiz_history
        adaptations ==
            [difficulty            |-> predict_next_difficulty(learner_data),
             content_format        |-> IF classification = "Struggling Learner"
                                       THEN "visual" ELSE "text",
             enable_challenge_mode |-> classification = "Advanced Learner",
             provide_hints         |-> classification # "Advanced Learner",
             revision_needed       |-> FALSE]
    IN  IF revision_override(quiz_history)
        THEN [adaptations EXCEPT !.revision_needed = TRUE, !.difficulty = "easy"]
        ELSE adaptations

-----------------------------------------------------------------------------
(* Session data: sample learners, question catalog, uploaded files         *)

Profile(id, quiz_history, engagement_score, learning_pace, classification) ==
    [id |-> id, quiz_history |-> quiz_history,
     engagement_score |-> engagement_score, learning_pace |-> learning_pace,
     classification |-> classification]

generate_sample_learners ==
    ("Alice Johnson" :> Profile("L001",
        << QuizRecord(45, 85, 8, 3, "Algebra"),
           QuizRecord(52, 78, 6, 2, "Geometry"),
           QuizRecord(48, 82, 7, 3, "Algebra") >>,
        62, "slow", "Struggling Learner"))
    @@ ("Bob Smith" :> Profile("L002",
        << QuizRecord(75, 45, 2, 0, "Algebra"),
           QuizRecord(78, 42, 1, 0, "Geometry"),
           QuizRecord(73, 48, 2, 1, "Statistics") >>,
        78, "moderate", "Average Learner"))
    @@ ("Carol Williams" :> Profile("L003",
        << QuizRecord(92, 28, 0, 0, "Algebra"),
           QuizRecord(95, 25, 0, 0, "Geometry"),
           QuizRecord(94, 26, 0, 0, "Calculus") >>,
        95, "fast", "Advanced Learner"))
    @@ ("David Brown" :> Profile("L004",
        << QuizRecord(68, 55, 3, 1, "Algebra"),
           QuizRecord(71, 52, 2, 1, "Geometry"),
           QuizRecord(69, 58, 3, 2, "Algebra") >>,
        72, "moderate", "Average Learner"))

\* key order of the learner dictionaries (Python dicts keep insertion order)
NameOrder == << "Alice Johnson", "Bob Smith", "Carol Williams", "David Brown",
                "Eve Davis" >>

learner_names(data) == SelectSeq(NameOrder, LAMBDA name : name \in DOMAIN data)

\* a question: its position in the catalog and the index of the right option
Question(topic, difficulty, i, correct) ==
    [question |-> <<topic, difficulty, i>>, correct |-> correct, options |-> 4]

QuestionList(topic, difficulty, corrects) ==
    [i \in 1..Len(corrects) |-> Question(topic, difficulty, i, corrects[i])]

\* the built-in questions_db of get_quiz_questions (Calculus has no easy list)
questions_db ==
    ("Algebra" :>
        [easy   |-> QuestionList("Algebra", "easy", <<1, 2, 1>>),
         medium |-> QuestionList("Algebra", "medium", <<2, 0, 1>>),
         hard   |-> QuestionList("Algebra", "hard", <<1, 1, 0>>)])
    @@ ("Geometry" :>
        [easy   |-> QuestionList("Geometry", "easy", <<2, 2, 2>>),
         medium |-> QuestionList("Geometry", "medium", <<1, 1, 2>>),
         hard   |-> QuestionList("Geometry", "hard", <<1, 3, 1>>)])
    @@ ("Statistics" :>
        [easy   |-> QuestionList("Statistics", "easy", <<1, 1, 1>>),
         medium |-> QuestionList("Statistics", "medium", <<3, 1>>),
         hard   |-> QuestionList("Statistics", "hard", <<0>>)])
    @@ ("Calculus" :>
        [medium |-> QuestionList("Calculus", "medium", <<1, 2>>),
         hard   |-> QuestionList("Calculus", "hard", <<0, 2>>)])

\* "if db:" holds for a non-empty dictionary (None is the empty mapping here)
Truthy(db) == DOMAIN db # {}

\* db.get(topic, {}).get(difficulty, [])
Lookup(db, topic, difficulty) ==
    IF topic \in DOMAIN db
    THEN IF difficulty \in DOMAIN db[topic] THEN db[topic][difficulty] ELSE <<>>
    ELSE <<>>

\* slip: the built-in list is preferred, the custom list only fills a gap
get_quiz_questions_builtin_first(custom_db, topic, difficulty) ==
    LET custom_questions == Lookup(custom_db, topic, difficulty)
    IN  IF Lookup(questions_db, topic, difficulty) # <<>>
        THEN Lookup(questions_db, topic, difficulty)
        ELSE custom_questions

get_quiz_questions(custom_db, topic, difficulty) ==
    LET custom_questions == Lookup(custom_db, topic, difficulty)
    IN  IF Truthy(custom_db) /\ custom_questions # <<>>
        THEN custom_questions
        ELSE Lookup(questions_db, topic, difficulty)

\* uploaded learner profiles (JSON): a roster that shares names with the
\* sample, Alice with another history and the classification of the file
CustomLearnerFiles ==
    { ("Alice Johnson" :> Profile("L001",
          << QuizRecord(90, 30, 0, 0, "Algebra"),
             QuizRecord(90, 30, 0, 0, "Algebra"),
             QuizRecord(90, 30, 0, 0, "Algebra") >>,
          70, "moderate", "Average Learner"))
      @@ ("Bob Smith" :> generate_sample_learners["Bob Smith"])
      @@ ("Carol Williams" :> generate_sample_learners["Carol Williams"])
      @@ ("Eve Davis" :> Profile("L005",
          << QuizRecord(60, 50, 1, 0, "Algebra"),
             QuizRecord(65, 50, 1, 0, "Algebra"),
             QuizRecord(70, 50, 1, 0, "Algebra") >>,
          70, "moderate", "Average Learner")) }

\* uploaded quiz history (CSV rows grouped by learner_name)
QuizHistoryFiles ==
    { ("Carol Williams" :> << QuizRecord(49, 30, 0, 0, "General") >>)
      @@ ("Unknown" :> << QuizRecord(70, 50, 0, 0, "General") >>) }

\* uploaded question catalog: one full list, one empty list
CustomQuestionFiles ==
    { "Statistics" :>
        [hard   |-> QuestionList("Custom", "hard", <<2, 2>>),
         medium |-> <<>>] }

\* what the modelled user picks
SelectChoices == {"Alice Johnson", "Carol Williams"}
TopicChoices == {"Statistics", "Calculus"}
TimeChoices == {30}
OptionIndices == 0..3
AnswerChoices(question) ==
    {question.correct, (question.correct + 1) % question.options}

-----------------------------------------------------------------------------
(* The script of main(): what one run does to the session state            *)

RECURSIVE SumSeq(_)
SumSeq(values) == IF values = <<>> THEN 0 ELSE Head(values) + SumSeq(Tail(values))

RECURSIVE TotalRecords(_, _)
TotalRecords(data, names) ==
    IF names = <<>> THEN 0
    ELSE Len(data[Head(names)].quiz_history) + TotalRecords(data, Tail(names))

WithinBounds(data) == TotalRecords(data, learner_names(data)) <= MaxRecords

\* the selectbox: the chosen learner, or the first option when the chosen
\* value is not among the options
selected_learner(data, selector) ==
    IF selector \in DOMAIN data THEN selector ELSE learner_names(data)[1]

\* tab 2 shows the completion view
quiz_completed(started, quiz, q_index) ==
    started /\ q_index >= Len(quiz.questions)

new_quiz_record(quiz) ==
    LET correct_answers ==
            Cardinality({ i \in 1..Len(quiz.answers) :
                            quiz.answers[i] = quiz.questions[i].correct })
    IN  [accuracy   |-> (correct_answers * 100 * Scale) \div Len(quiz.questions),
         avg_time   |-> IF quiz.times # <<>>
                        THEN (SumSeq(quiz.times) * Scale) \div Len(quiz.times)
                        ELSE 0,
         hints_used |-> quiz.hints_used,
         retries    |-> 0,
         topic      |-> quiz.topic]

\* slip: the classification update is left out
append_only(data, name, records) ==
    [data EXCEPT ![name].quiz_history = @ \o records]

\* slip: the records are put in front with quiz_history[:0] = records
append_and_classify_in_front(data, name, records) ==
    LET extended == [data[name] EXCEPT !.quiz_history = records \o @]
    IN  [data EXCEPT ![name] =
            [extended EXCEPT !.classification = classify_learner(extended)]]

\* quiz_history.append / extend followed by the classification update
append_and_classify(data, name, records) ==
    LET extended == [data[name] EXCEPT !.quiz_history = @ \o records]
    IN  [data EXCEPT ![name] =
            [extended EXCEPT !.classification = classify_learner(extended)]]

\* the completion view of tab 2, executed by every run that reaches it
completion_view(data, learner, started, quiz, q_index) ==
    IF quiz_completed(started, quiz, q_index)
    THEN append_and_classify(data, learner, << new_quiz_record(quiz) >>)
    ELSE data

\* rows of an imported file, learner by learner
import_quiz_history(data, quiz_history) ==
    [name \in DOMAIN data |->
        IF name \in DOMAIN quiz_history
        THEN append_and_classify(data, name, quiz_history[name])[name]
        ELSE data[name]]

available_topics(custom_db) ==
    IF Truthy(custom_db) THEN DOMAIN custom_db
    ELSE {"Algebra", "Geometry", "Statistics", "Calculus"}

-----------------------------------------------------------------------------
(* Spec: the session                                                       *)

Init ==
    /\ learners_data = generate_sample_learners
    /\ current_learner = None
    /\ learner_selector = None
    /\ custom_questions_db = NoQuestions
    /\ quiz_started = FALSE
    /\ current_quiz = NoQuiz
    /\ current_question_index = 0
    /\ call = "none"
    /\ returned = "none"
    /\ previous = <<>>

Rendered == current_learner # None

\* a run in which no handler fires: page load, tab switch, radio choice
PageRun ==
    /\ current_learner' = selected_learner(learners_data, learner_selector)
    /\ learner_selector' = current_learner'
    /\ learners_data' = completion_view(learners_data, current_learner',
                            quiz_started, current_quiz, current_question_index)
    /\ WithinBounds(learners_data')
    /\ UNCHANGED <<custom_questions_db, quiz_started, current_quiz,
                   current_question_index, call, returned, previous>>

SelectLearner(name) ==
    /\ Rendered
    /\ name \in DOMAIN learners_data
    /\ name # learner_selector
    /\ learner_selector' = name
    /\ current_learner' = name
    /\ learners_data' = completion_view(learners_data, name,
                            quiz_started, current_quiz, current_question_index)
    /\ WithinBounds(learners_data')
    /\ UNCHANGED <<custom_questions_db, quiz_started, current_quiz,
                   current_question_index, call, returned, previous>>

UseThisData(custom_learners) ==
    /\ Rendered
    /\ current_learner' = selected_learner(custom_learners, learner_selector)
    /\ learner_selector' = current_learner'
    /\ learners_data' = completion_view(custom_learners, current_learner',
                            quiz_started, current_quiz, current_question_index)
    /\ WithinBounds(learners_data')
    /\ UNCHANGED <<custom_questions_db, quiz_started, current_quiz,
                   current_question_index, call, returned, previous>>

ImportQuizHistory(quiz_history) ==
    /\ Rendered
    /\ learners_data' = completion_view(
                            import_quiz_history(learners_data, quiz_history),
                            current_learner,
                            quiz_started, current_quiz, current_question_index)
    /\ WithinBounds(learners_data')
    /\ UNCHANGED <<session_vars, call, returned, previous>>

UseCustomQuestions(custom_questions) ==
    /\ Rendered
    /\ custom_questions_db' = custom_questions
    /\ learners_data' = completion_view(learners_data, current_learner,
                            quiz_started, current_quiz, current_question_index)
    /\ WithinBounds(learners_data')
    /\ UNCHANGED <<current_learner, learner_selector, quiz_started, current_quiz,
                   current_question_index, call, returned, previous>>

\* slip: the quiz starts whether or not questions were found
StartQuiz_without_check(topic, difficulty) ==
    /\ Rendered
    /\ ~quiz_started
    /\ topic \in available_topics(custom_questions_db)
    /\ LET questions == get_quiz_questions(custom_questions_db, topic, difficulty)
       IN  IF TRUE
           THEN /\ current_quiz' = [topic |-> topic, difficulty |-> difficulty,
                                    questions |-> questions, answers |-> <<>>,
                                    times |-> <<>>, hints_used |-> 0]
                /\ current_question_index' = 0
                /\ quiz_started' = TRUE
           ELSE UNCHANGED <<current_quiz, current_question_index, quiz_started>>
    /\ UNCHANGED <<learners_data, current_learner, learner_selector,
                   custom_questions_db, call, returned, previous>>

\* slip: current_question_index is not set back
StartQuiz_keeps_index(topic, difficulty) ==
    /\ Rendered
    /\ ~quiz_started
    /\ topic \in available_topics(custom_questions_db)
    /\ LET questions == get_quiz_questions(custom_questions_db, topic, difficulty)
       IN  IF questions # <<>>
           THEN /\ current_quiz' = [topic |-> topic, difficulty |-> difficulty,
                                    questions |-> questions, answers |-> <<>>,
                                    times |-> <<>>, hints_used |-> 0]
                /\ current_question_index' = current_question_index
                /\ quiz_started' = TRUE
           ELSE UNCHANGED <<current_quiz, current_question_index, quiz_started>>
    /\ UNCHANGED <<learners_data, current_learner, learner_selector,
                   custom_questions_db, call, returned, previous>>

StartQuiz(topic, difficulty) ==
    /\ Rendered
    /\ ~quiz_started
    /\ topic \in available_topics(custom_questions_db)
    /\ LET questions == get_quiz_questions(custom_questions_db, topic, difficulty)
       IN  IF questions # <<>>
           THEN /\ current_quiz' = [topic |-> topic, difficulty |-> difficulty,
                                    questions |-> questions, answers |-> <<>>,
                                    times |-> <<>>, hints_used |-> 0]
                /\ current_question_index' = 0
                /\ quiz_started' = TRUE
           ELSE UNCHANGED <<current_quiz, current_question_index, quiz_started>>
    /\ UNCHANGED <<learners_data, current_learner, learner_selector,
                   custom_questions_db, call, returned, previous>>

QuestionShown ==
    /\ Rendered
    /\ quiz_started
    /\ current_question_index < Len(current_quiz.questions)

GetHint ==
    /\ QuestionShown
    /\ current_quiz.hints_used < MaxHints
    /\ current_quiz' = [current_quiz EXCEPT !.hints_used = @ + 1]
    /\ UNCHANGED <<learners_data, current_learner, learner_selector,
                   custom_questions_db, quiz_started, current_question_index,
                   call, returned, previous>>

SubmitAnswer(answer, question_time) ==
    /\ QuestionShown
    /\ answer \in AnswerChoices(current_quiz.questions[current_question_index + 1])
    /\ current_quiz' = [current_quiz EXCEPT !.answers = Append(@, answer),
                                            !.times = Append(@, question_time)]
    /\ current_question_index' = current_question_index + 1
    /\ learners_data' = completion_view(learners_data, current_learner,
                            quiz_started, current_quiz', current_question_index')
    /\ WithinBounds(learners_data')
    /\ UNCHANGED <<current_learner, learner_selector, custom_questions_db,
                   quiz_started, call, returned, previous>>

ExitQuiz ==
    /\ QuestionShown
    /\ quiz_started' = FALSE
    /\ current_quiz' = NoQuiz
    /\ UNCHANGED <<learners_data, current_learner, learner_selector,
                   custom_questions_db, current_question_index, call, returned, previous>>

TakeAnotherQuiz ==
    /\ Rendered
    /\ quiz_completed(quiz_started, current_quiz, current_question_index)
    /\ learners_data' = completion_view(learners_data, current_learner,
                            quiz_started, current_quiz, current_question_index)
    /\ WithinBounds(learners_data')
    /\ quiz_started' = FALSE
    /\ current_quiz' = NoQuiz
    /\ UNCHANGED <<current_learner, learner_selector, custom_questions_db,
                   current_question_index, call, returned, previous>>

\* tab 5: the handler runs after tab 2 was rendered, then calls st.rerun()
SendChatMessage ==
    /\ Rendered
    /\ quiz_completed(quiz_started, current_quiz, current_question_index)
    /\ learners_data' =
          completion_view(
              completion_view(learners_data, current_learner, quiz_started,
                              current_quiz, current_question_index),
              current_learner, quiz_started, current_quiz, current_question_index)
    /\ WithinBounds(learners_data')
    /\ UNCHANGED <<session_vars, call, returned, previous>>

Next ==
    \/ PageRun
    \/ \E name \in SelectChoices : SelectLearner(name)
    \/ \E custom_learners \in CustomLearnerFiles : UseThisData(custom_learners)
    \/ \E quiz_history \in QuizHistoryFiles : ImportQuizHistory(quiz_history)
    \/ \E custom_questions \in CustomQuestionFiles :
          UseCustomQuestions(custom_questions)
    \/ \E topic \in TopicChoices, difficulty \in Difficulties :
          StartQuiz(topic, difficulty)
    \/ GetHint
    \/ \E answer \in OptionIndices, question_time \in TimeChoices :
          SubmitAnswer(answer, question_time)
    \/ ExitQuiz
    \/ TakeAnotherQuiz
    \/ SendChatMessage

Spec == Init /\ [][Next]_vars

-----------------------------------------------------------------------------
(* EngineSpec: the three engine functions applied to bounded inputs        *)

Probe == "Learner"

\* records the engine inputs are built from: the first two are records of
\* generate_sample_learners, the others sit on the thresholds; the last one
\* is well-typed but not range-valid (the engine does not re-validate)
EngineRecords ==
    { QuizRecord(45, 85, 8, 3, "Algebra"),
      QuizRecord(95, 25, 0, 0, "Geometry"),
      QuizRecord(49, 20, 0, 0, "Algebra"),
      QuizRecord(40, 80, 0, 0, "Algebra"),
      QuizRecord(50, 70, 5, 0, "Algebra"),
      QuizRecord(70, 60, 1, 0, "Algebra"),
      QuizRecord(85, 30, 0, 0, "Algebra"),
      QuizRecord(200, 45, 0, 0, "Algebra") }

HistoriesUpTo(n) == UNION { [1..k -> EngineRecords] : k \in 0..n }

\* the histories of generate_sample_learners
SampleHistories ==
    { generate_sample_learners[name].quiz_history :
        name \in DOMAIN generate_sample_learners }

EngineProfile(quiz_history, classification) ==
    [id |-> "L000", quiz_history |-> quiz_history, engagement_score |-> 70,
     learning_pace |-> "moderate", classification |-> classification]

EngineInit ==
    /\ \E quiz_history \in HistoriesUpTo(MaxLen) \cup SampleHistories,
          classification \in Tiers :
          learners_data = [name \in {Probe} |->
                              EngineProfile(quiz_history, classification)]
    /\ current_learner = Probe
    /\ learner_selector = Probe
    /\ custom_questions_db = NoQuestions
    /\ quiz_started = FALSE
    /\ current_quiz = NoQuiz
    /\ current_question_index = 0
    /\ call = "none"
    /\ returned = "none"
    /\ previous = <<>>

\* the value of the call before, kept when fn is called again
Repeated(fn) == IF call = fn THEN <<returned>> ELSE <<>>

CallClassifyLearner ==
    /\ call' = "classify_learner"
    /\ previous' = Repeated("classify_learner")
    /\ returned' = classify_learner(learners_data[Probe])
    /\ UNCHANGED <<learners_data, session_vars>>

CallPredictNextDifficulty ==
    /\ call' = "predict_next_difficulty"
    /\ previous' = Repeated("predict_next_difficulty")
    /\ returned' = predict_next_difficulty(learners_data[Probe])
    /\ UNCHANGED <<learners_data, session_vars>>

\* slip: the call stores a fresh classification in the profile it was given
CallAdaptContent_reclassify ==
    /\ call' = "adapt_content"
    /\ previous' = Repeated("adapt_content")
    /\ returned' = adapt_content(learners_data[Probe])
    /\ learners_data' = [learners_data EXCEPT ![Probe].classification =
                            classify_learner(learners_data[Probe])]
    /\ UNCHANGED session_vars

\* slip: the last record is taken with quiz_history.pop()
CallAdaptContent_pops_last ==
    /\ call' = "adapt_content"
    /\ previous' = Repeated("adapt_content")
    /\ returned' = adapt_content(learners_data[Probe])
    /\ learners_data' =
          [learners_data EXCEPT ![Probe].quiz_history =
              IF @ = <<>> THEN @ ELSE SubSeq(@, 1, Len(@) - 1)]
    /\ UNCHANGED session_vars

CallAdaptContent ==
    /\ call' = "adapt_content"
    /\ previous' = Repeated("adapt_content")
    /\ returned' = adapt_content(learners_data[Probe])
    /\ UNCHANGED <<learners_data, session_vars>>

EngineNext ==
    \/ CallClassifyLearner
    \/ CallPredictNextDifficulty
    \/ CallAdaptContent

EngineSpec == EngineInit /\ [][EngineNext]_vars

-----------------------------------------------------------------------------
(* Cohort clustering: cluster_learners                                     *)
(*                                                                         *)
(* StandardScaler and KMeans are library code.  They are modelled by what  *)
(* they compute: every feature is divided by its standard deviation (by 1  *)
(* when the deviation is 0), k-means++ seeds the centres with data points, *)
(* a seed after the first being a point at a positive distance from the    *)
(* seeds before it whenever such a point exists, and Lloyd's iteration     *)
(* runs to its fixed point, a point taking the nearest centre and the      *)
(* lowest index among equally near ones.  The random generator is a        *)
(* nondeterministic choice of the seeds; the best of n_init runs, the runs *)
(* being free to draw the same seeds, is any single run.                   *)
(*                                                                         *)
(* Distances are compared exactly.  With n points, centre c the mean       *)
(* sum/weight of its members and V[d] = n^2 * variance of feature d, the   *)
(* squared distance of point p to c in the scaled space is                 *)
(*   n^2 / (weight^2 * V[1] * V[2]) * Numerator(p, c)                      *)
(* so two centres compare by Numerator / weight^2.                         *)

RECURSIVE SumOf(_, _)
SumOf(f, S) ==
    IF S = {} THEN 0
    ELSE LET i == CHOOSE i \in S : TRUE IN f[i] + SumOf(f, S \ {i})

\* np.mean of a field in whole units; the histories clustered here have
\* whole-number means (WholeMeans), for which the division is exact
mean_feature(quiz_history, field) ==
    SumField(quiz_history, field) \div (Scale * Len(quiz_history))

WholeMeans(quiz_history) ==
    \A field \in {"accuracy", "avg_time"} :
        SumField(quiz_history, field) % (Scale * Len(quiz_history)) = 0

\* n^2 * scaler.scale_[d]^2: n^2 * variance, and n^2 * 1 for zero variance
ScaleSquared(features, d) ==
    LET n == Len(features)
        x == [i \in 1..n |-> features[i][d]]
        xx == [i \in 1..n |-> x[i] * x[i]]
        spread == n * SumOf(xx, 1..n) - SumOf(x, 1..n) * SumOf(x, 1..n)
    IN  IF spread = 0 THEN n * n ELSE spread

\* scale2 = << ScaleSquared of feature 1, ScaleSquared of feature 2 >>
Numerator(scale2, p, centre) ==
    LET dx == centre.weight * p[1] - centre.sum[1]
        dt == centre.weight * p[2] - centre.sum[2]
    IN  dx * dx * scale2[2] + dt * dt * scale2[1]

\* a / b < c / d for b, d > 0, without forming the cross products
FractionLT(a, b, c, d) ==
    \/ a \div b < c \div d
    \/ a \div b = c \div d /\ (a % b) * d < (c % d) * b

\* point p is strictly nearer to centre c1 than to centre c2
Nearer(scale2, p, c1, c2) ==
    FractionLT(Numerator(scale2, p, c1), c1.weight * c1.weight,
               Numerator(scale2, p, c2), c2.weight * c2.weight)

\* the assignment step: index of the nearest centre, the lowest on a tie
assign_labels(features, scale2, centres) ==
    [i \in 1..Len(features) |->
        CHOOSE j \in 1..Len(centres) :
            \A l \in 1..Len(centres) :
                IF l < j THEN Nearer(scale2, features[i], centres[j], centres[l])
                ELSE ~Nearer(scale2, features[i], centres[l], centres[j])]

\* the update step: a centre becomes the mean of its members; a centre
\* without members stays on the data point it was seeded on
update_centres(features, labels, centres) ==
    [j \in 1..Len(centres) |->
        LET members == {i \in 1..Len(features) : labels[i] = j}
        IN  IF members = {} THEN centres[j]
            ELSE [sum |-> << SumOf([i \in members |-> features[i][1]], members),
                             SumOf([i \in members |-> features[i][2]], members) >>,
                  weight |-> Cardinality(members)]]

RECURSIVE lloyd(_, _, _)
lloyd(features, scale2, centres) ==
    LET labels == assign_labels(features, scale2, centres)
        moved == update_centres(features, labels, centres)
    IN  IF moved = centres THEN labels ELSE lloyd(features, scale2, moved)

\* k-means++: the indices of the data points the centres are seeded on
kmeans_plusplus(features, n_clusters) ==
    { seeds \in [1..n_clusters -> 1..Len(features)] :
        \A j \in 2..n_clusters :
            LET apart == {i \in 1..Len(features) :
                            \A l \in 1..(j - 1) : features[i] # features[seeds[l]]}
            IN  apart # {} => seeds[j] \in apart }

\* KMeans(n_clusters).fit_predict(features_scaled): the label vectors the
\* fit can return, labels counted from 0
fit_predict(features, n_clusters) ==
    LET scale2 == << ScaleSquared(features, 1), ScaleSquared(features, 2) >>
        fit(seeds) ==
            lloyd(features, scale2,
                  [j \in 1..n_clusters |->
                      [sum |-> features[seeds[j]], weight |-> 1]])
    IN  { [i \in 1..Len(features) |-> labels[i] - 1] :
            labels \in { fit(seeds) :
                            seeds \in kmeans_plusplus(features, n_clusters) } }

\* outcome of a call: the value returned, or the exception raised
Returned(value) == [raised |-> "none", value |-> value]
Raised(exception) == [raised |-> exception, value |-> <<>>]

\* learners with quiz history, in the order of the dictionary
with_history(data) ==
    SelectSeq(learner_names(data), LAMBDA name : data[name].quiz_history # <<>>)

\* cluster_learners with its two parameters named: the least number of
\* feature rows that are clustered, and n_clusters.  KMeans raises a
\* ValueError when it is given fewer rows than clusters.
cluster_learners_with(data, min_features, n_clusters) ==
    IF Cardinality(DOMAIN data) < 3 THEN { Returned(<<>>) }
    ELSE LET names == with_history(data)
             features == [i \in 1..Len(names) |->
                            << mean_feature(data[names[i]].quiz_history, "accuracy"),
                               mean_feature(data[names[i]].quiz_history, "avg_time") >>]
         IN  IF Len(names) >= min_features
             THEN IF Len(names) < n_clusters THEN { Raised("ValueError") }
                  ELSE { Returned([name \in {names[i] : i \in 1..Len(names)} |->
                                      clusters[CHOOSE i \in 1..Len(names) :
                                                    names[i] = name]]) :
                            clusters \in fit_predict(features, n_clusters) }
             ELSE { Returned(<<>>) }

\* slip: if len(features) >= 2
cluster_learners_from_2_features(data) == cluster_learners_with(data, 2, 3)

\* slip: KMeans(n_clusters=2, ...)
cluster_learners_2_clusters(data) == cluster_learners_with(data, 3, 2)

\* slip: KMeans(n_clusters=4, ...)
cluster_learners_4_clusters(data) == cluster_learners_with(data, 3, 4)

\* len(features) >= 3 and KMeans(n_clusters=3, random_state=42, n_init=10)
cluster_learners(data) == cluster_learners_with(data, 3, 3)

-----------------------------------------------------------------------------
(* ClusterSpec: cluster_learners applied to bounded populations            *)

\* histories the populations are built from: none, three with the feature
\* pairs (95,20), (94,22), (40,90), and a two-record history whose means
\* are (95,20) again; the last learner brings a fourth feature pair
ClusterHistories(name) ==
    IF name = "David Brown"
    THEN { <<>>, << QuizRecord(70, 50, 1, 0, "Algebra") >> }
    ELSE { <<>>,
           << QuizRecord(95, 20, 0, 0, "Algebra") >>,
           << QuizRecord(94, 22, 0, 0, "Algebra") >>,
           << QuizRecord(40, 90, 6, 2, "Algebra") >>,
           << QuizRecord(90, 15, 0, 0, "Algebra"),
              QuizRecord(100, 25, 0, 0, "Geometry") >> }

ClusterInit ==
    /\ \E population \in SUBSET DOMAIN generate_sample_learners :
          \E histories \in [population -> UNION {ClusterHistories(name) :
                                                    name \in population}] :
             /\ \A name \in population :
                   /\ histories[name] \in ClusterHistories(name)
                   /\ histories[name] # <<>> => WholeMeans(histories[name])
             /\ learners_data =
                   [name \in population |->
                       [generate_sample_learners[name]
                           EXCEPT !.quiz_history = histories[name]]]
    /\ current_learner = None
    /\ learner_selector = None
    /\ custom_questions_db = NoQuestions
    /\ quiz_started = FALSE
    /\ current_quiz = NoQuiz
    /\ current_question_index = 0
    /\ call = "none"
    /\ returned = "none"
    /\ previous = <<>>

CallClusterLearners ==
    /\ call' = "cluster_learners"
    /\ previous' = Repeated("cluster_learners")
    /\ returned' \in cluster_learners(learners_data)
    /\ UNCHANGED <<learners_data, session_vars>>

ClusterNext == CallClusterLearners

ClusterSpec == ClusterInit /\ [][ClusterNext]_vars

-----------------------------------------------------------------------------
(* Feedback and recommendations                                            *)
(*                                                                         *)
(* A text is the sequence of its pieces: a fixed text is one piece, an     *)
(* f-string is its literal parts and the values set into it, in order.     *)
(* The emoji of the source texts are left out of the pieces.               *)

\* the pool random.choice draws from on a correct answer
celebratory_messages(learner_classification) ==
    IF learner_classification = "Advanced Learner"
    THEN << <<"Excellent! Ready for more challenges?">>,
            <<"Perfect! Your problem-solving skills are sharp.">>,
            <<"Outstanding! Keep pushing your limits.">> >>
    ELSE IF learner_classification = "Average Learner"
    THEN << <<"Great job! You're making solid progress.">>,
            <<"Well done! Your understanding is improving.">>,
            <<"Correct! Keep up the consistent work.">> >>
    ELSE << <<"Fantastic! See, you can do it!">>,
            <<"Wonderful! This is real progress!">>,
            <<"Yes! You're getting stronger at this!">> >>

\* question_data.get('hint', 'Try to break down the problem step by step.')
hint_of(question_data) ==
    IF "hint" \in DOMAIN question_data THEN question_data.hint
    ELSE "Try to break down the problem step by step."

\* slip: the hint is left out of the message for the other tiers
hint_message_without_hint(question_data, learner_classification) ==
    IF learner_classification = "Struggling Learner"
    THEN <<"Not quite right, but don't give up! Here's a hint: ", hint_of(question_data)>>
    ELSE <<"Not correct. Think about: ">>

\* the message for an incorrect answer
hint_message(question_data, learner_classification) ==
    IF learner_classification = "Struggling Learner"
    THEN <<"Not quite right, but don't give up! Here's a hint: ", hint_of(question_data)>>
    ELSE <<"Not correct. Think about: ", hint_of(question_data)>>

\* slip: the answer is compared with the option number counted from 1
generate_personalized_feedback_from_1(question_data, user_answer, correct_answer, learner_classification) ==
    IF user_answer = correct_answer + 1
    THEN LET messages == celebratory_messages(learner_classification)
         IN  { <<messages[i], "success">> : i \in DOMAIN messages }
    ELSE { <<hint_message(question_data, learner_classification), "error">> }

\* slip: random.choice draws from the pools of all tiers
generate_personalized_feedback_any_pool(question_data, user_answer, correct_answer, learner_classification) ==
    IF user_answer = correct_answer
    THEN { <<celebratory_messages(tier)[i], "success">> : tier \in Tiers, i \in 1..3 }
    ELSE { <<hint_message(question_data, learner_classification), "error">> }

\* the (message, type) pairs a call can return: random.choice is any member
generate_personalized_feedback(question_data, user_answer, correct_answer, learner_classification) ==
    IF user_answer = correct_answer
    THEN LET messages == celebratory_messages(learner_classification)
         IN  { <<messages[i], "success">> : i \in DOMAIN messages }
    ELSE { <<hint_message(question_data, learner_classification), "error">> }

Recommendation(type, title, description, priority) ==
    [type |-> type, title |-> title, description |-> description,
     priority |-> priority]

recommendation_catalog(classification, current_topic) ==
    IF classification = "Struggling Learner"
    THEN << Recommendation("Video Tutorial",
                <<"Visual Guide to ", current_topic, " Basics">>,
                "Step-by-step visual explanation with examples", "High"),
            Recommendation("Guided Practice",
                <<"Interactive Practice Problems">>,
                "Practice with instant feedback and hints", "High"),
            Recommendation("Revision Summary",
                <<current_topic, " Key Concepts Review">>,
                "Quick reference sheet with formulas and examples", "Medium"),
            Recommendation("Focus Session",
                <<"One-on-One Tutoring Recommended">>,
                "Personalized help with difficult concepts", "High") >>
    ELSE IF classification = "Advanced Learner"
    THEN << Recommendation("Challenge Problem",
                <<"Advanced ", current_topic, " Competition Problems">>,
                "Olympiad-level questions to test your skills", "High"),
            Recommendation("Research Project",
                <<"Real-World Application Project">>,
                "Apply concepts to solve real problems", "Medium"),
            Recommendation("Peer Teaching",
                <<"Help Others Learn">>,
                "Reinforce your knowledge by teaching peers", "Medium"),
            Recommendation("Advanced Topics",
                <<"Next Level: Beyond ", current_topic>>,
                "Explore university-level concepts", "High") >>
    ELSE << Recommendation("Practice Set",
                <<current_topic, " Mixed Practice">>,
                "Variety of problems to strengthen skills", "High"),
            Recommendation("Concept Review",
                <<"Video Review of Key Topics">>,
                "Refresh your understanding", "Medium"),
            Recommendation("Skill Builder",
                <<"Targeted Improvement Exercises">>,
                "Focus on areas needing work", "High"),
            Recommendation("Quick Quiz",
                <<"Daily Challenge">>,
                "Keep your skills sharp with daily practice", "Medium") >>

\* slip: return recommendations[:2]
generate_recommendations_top_2(learner_data, current_topic) ==
    SubSeq(recommendation_catalog(learner_data.classification, current_topic), 1, 2)

generate_recommendations(learner_data, current_topic) ==
    recommendation_catalog(learner_data.classification, current_topic)

-----------------------------------------------------------------------------
(* FeedbackSpec: feedback and recommendations applied to bounded inputs    *)

\* the questions answered: every index of the right option, with the hint
\* of a built-in question and without a hint (a custom question file need
\* not give one)
FeedbackQuestions ==
    { Question("Algebra", "easy", 1, correct) : correct \in OptionIndices }
    \cup
    { [question |-> <<"Algebra", "easy", 1>>, correct |-> correct, options |-> 4,
       hint |-> "Subtract 5 from both sides first, then divide by 2"] :
        correct \in OptionIndices }

FeedbackTopics == {"Algebra", "Geometry", "Statistics", "Calculus"}

\* the state in which main() calls the two functions: a learner of some
\* tier has just submitted an answer to the question shown
FeedbackInit ==
    /\ \E classification \in Tiers :
          learners_data = [name \in {Probe} |-> EngineProfile(<<>>, classification)]
    /\ current_learner = Probe
    /\ learner_selector = Probe
    /\ custom_questions_db = NoQuestions
    /\ quiz_started = TRUE
    /\ \E topic \in FeedbackTopics, question \in FeedbackQuestions,
          answer \in OptionIndices :
          current_quiz = [topic |-> topic, difficulty |-> "easy",
                          questions |-> <<question>>, answers |-> <<answer>>,
                          times |-> <<30>>, hints_used |-> 0]
    /\ current_question_index = 0
    /\ call = "none"
    /\ returned = "none"
    /\ previous = <<>>

\* the question on the page and the answer just appended to the quiz
AnsweredQuestion == current_quiz.questions[current_question_index + 1]
GivenAnswer == current_quiz.answers[Len(current_quiz.answers)]

CallGeneratePersonalizedFeedback ==
    /\ call' = "generate_personalized_feedback"
    /\ previous' = Repeated("generate_personalized_feedback")
    /\ returned' \in generate_personalized_feedback(AnsweredQuestion, GivenAnswer,
                        AnsweredQuestion.correct, learners_data[Probe].classification)
    /\ UNCHANGED <<learners_data, session_vars>>

CallGenerateRecommendations ==
    /\ call' = "generate_recommendations"
    /\ previous' = Repeated("generate_recommendations")
    /\ returned' = generate_recommendations(learners_data[Probe], current_quiz.topic)
    /\ UNCHANGED <<learners_data, session_vars>>

FeedbackNext ==
    \/ CallGeneratePersonalizedFeedback
    \/ CallGenerateRecommendations

FeedbackSpec == FeedbackInit /\ [][FeedbackNext]_vars

-----------------------------------------------------------------------------
(* Properties                                                              *)

Hist == learners_data[Probe].quiz_history
Last(quiz_history) == quiz_history[Len(quiz_history)]

\* old is a proper prefix of new
Extends(old, new) ==
    /\ Len(new) > Len(old)
    /\ SubSeq(new, 1, Len(old)) = old

\* profiles as they come out of generate_sample_learners or an uploaded file
LoadedProfiles ==
    { generate_sample_learners[name] : name \in DOMAIN generate_sample_learners }
    \cup UNION { { file[name] : name \in DOMAIN file } : file \in CustomLearnerFiles }

\* C1: whenever a step appends records to a learner's history (quiz
\* completion, quiz-history import), the classification stored after the
\* step is classify_learner of the new history; and no reachable state shows
\* a mutated profile whose classification is not the one of its history.
C1_ReclassifiedWithMutation ==
    /\ [](\A name \in DOMAIN learners_data :
             \/ learners_data[name] \in LoadedProfiles
             \/ learners_data[name].classification
                   = classify_learner(learners_data[name]))
    /\ [][\A name \in DOMAIN learners_data \cap DOMAIN learners_data' :
             Extends(learners_data[name].quiz_history,
                     learners_data'[name].quiz_history)
             => learners_data'[name].classification
                   = classify_learner(learners_data'[name])]_vars

\* C1 witness: Carol's history grew and her tier moved off the loaded one
C1_Witness ==
    /\ "Carol Williams" \in DOMAIN learners_data
    /\ Len(learners_data["Carol Williams"].quiz_history) = 4
    /\ learners_data["Carol Williams"].classification = "Average Learner"

\* the decision table of the classifier as the specification states it,
\* on the totals of a history of length n
RECURSIVE Total(_, _, _)
Total(quiz_history, field, i) ==
    IF i = 0 THEN 0 ELSE quiz_history[i][field] + Total(quiz_history, field, i - 1)

TableAccuracy(h) == Total(h, "accuracy", Len(h))
TableTime(h) == Total(h, "avg_time", Len(h))
TableHints(h) == Total(h, "hints_used", Len(h))

TableStruggling(h) ==
    /\ TableAccuracy(h) < 60 * Scale * Len(h)
    /\ (TableTime(h) > 70 * Scale * Len(h) \/ TableHints(h) > 5)

TableAdvanced(h) ==
    /\ TableAccuracy(h) >= 85 * Scale * Len(h)
    /\ TableTime(h) < 35 * Scale * Len(h)
    /\ TableHints(h) = 0

ClassifierTable(h) ==
    CASE Len(h) = 0 -> "New Learner"
      [] Len(h) > 0 /\ TableStruggling(h) -> "Struggling Learner"
      [] Len(h) > 0 /\ ~TableStruggling(h) /\ TableAdvanced(h) -> "Advanced Learner"
      [] OTHER -> "Average Learner"

\* C2: the tier classify_learner returns is the one of the decision table
\* (New / Struggling / Advanced / Average) over the entire history.
C2_ClassifierTable ==
    call = "classify_learner" => returned = ClassifierTable(Hist)

\* C2 witness: Struggling through the hint total alone, on 4 records
C2_Witness ==
    /\ call = "classify_learner"
    /\ returned = "Struggling Learner"
    /\ Len(Hist) = 4
    /\ TableTime(Hist) <= 70 * Scale * Len(Hist)

\* C3: mean accuracy < 60 and total hints > 5 give Struggling Learner,
\* whatever the avg_time values are.
C3_StrugglingByHints ==
    (/\ call = "classify_learner"
     /\ Hist # <<>>
     /\ TableAccuracy(Hist) < 60 * Scale * Len(Hist)
     /\ TableHints(Hist) > 5)
    => returned = "Struggling Learner"

\* C3 witness: such a history whose mean avg_time is not above 70
C3_Witness ==
    /\ call = "classify_learner"
    /\ Hist # <<>>
    /\ TableAccuracy(Hist) < 60 * Scale * Len(Hist)
    /\ TableHints(Hist) > 5
    /\ TableTime(Hist) <= 70 * Scale * Len(Hist)
    /\ returned = "Struggling Learner"

AllRecordsAdvanced(h) ==
    \A i \in 1..Len(h) :
        /\ h[i].accuracy >= 85 * Scale
        /\ h[i].avg_time < 35 * Scale
        /\ h[i].hints_used = 0

\* C4: a non-empty history whose every record has accuracy >= 85,
\* avg_time < 35 and no hints is classified Advanced Learner.
C4_AdvancedByRecords ==
    (call = "classify_learner" /\ Hist # <<>> /\ AllRecordsAdvanced(Hist))
    => returned = "Advanced Learner"

\* C4 witness: several such records, the first one with accuracy exactly 85
C4_Witness ==
    /\ call = "classify_learner"
    /\ Len(Hist) >= 3
    /\ AllRecordsAdvanced(Hist)
    /\ Hist[1].accuracy = 85 * Scale
    /\ Hist[2].accuracy > 85 * Scale
    /\ returned = "Advanced Learner"

\* classify_learner with the Advanced check evaluated first
classify_advanced_first(quiz_history) ==
    IF quiz_history = <<>> THEN "New Learner"
    ELSE IF is_advanced(quiz_history) THEN "Advanced Learner"
    ELSE IF is_struggling(quiz_history) THEN "Struggling Learner"
    ELSE "Average Learner"

\* C5: no history satisfies the Struggling and the Advanced condition
\* together, and the tier returned is the one the opposite order of the two
\* checks gives.
C5_ConditionsExclusive ==
    call = "classify_learner" =>
        /\ ~(Hist # <<>> /\ is_struggling(Hist) /\ is_advanced(Hist))
        /\ returned = classify_advanced_first(Hist)

\* C5 witness: a Struggling history without any hint, which only the
\* accuracy and time conditions keep apart from Advanced
C5_Witness ==
    /\ call = "classify_learner"
    /\ Hist # <<>>
    /\ is_struggling(Hist)
    /\ TableHints(Hist) = 0
    /\ returned = "Struggling Learner"

\* the trailing window of at most 3 records, by index
Window(h) == [i \in 1..(IF Len(h) < 3 THEN Len(h) ELSE 3) |->
                 h[Len(h) - (IF Len(h) < 3 THEN Len(h) ELSE 3) + i]]

PredictorTable(h) ==
    LET w == Window(h)
    IN  CASE Len(h) = 0 -> "easy"
          [] /\ Len(h) > 0
             /\ TableAccuracy(w) >= 90 * Scale * Len(w)
             /\ TableTime(w) < 35 * Scale * Len(w) -> "hard"
          [] /\ Len(h) > 0
             /\ ~(/\ TableAccuracy(w) >= 90 * Scale * Len(w)
                  /\ TableTime(w) < 35 * Scale * Len(w))
             /\ TableAccuracy(w) >= 70 * Scale * Len(w)
             /\ TableTime(w) < 60 * Scale * Len(w) -> "medium"
          [] OTHER -> "easy"

\* C6: the difficulty predict_next_difficulty returns is the one of the
\* decision table over the trailing window of at most 3 records.
C6_PredictorTable ==
    call = "predict_next_difficulty" => returned = PredictorTable(Hist)

\* C6 witness: hard from the last 3 of 4 records, the whole history not hard
C6_Witness ==
    /\ call = "predict_next_difficulty"
    /\ Len(Hist) = 4
    /\ returned = "hard"
    /\ TableAccuracy(Hist) < 90 * Scale * Len(Hist)

\* C7: a history of length >= 3 and every history with the same last 3
\* records and other (or no) earlier records get the same difficulty.
C7_OnlyLastThree ==
    (call = "predict_next_difficulty" /\ Len(Hist) >= 3) =>
        \A earlier \in HistoriesUpTo(MaxLen - 3) :
            predict_next_difficulty(
                [learners_data[Probe] EXCEPT
                    !.quiz_history = earlier \o Window(Hist)]) = returned

\* C7 witness: 4 records, the first one far from the other three
C7_Witness ==
    /\ call = "predict_next_difficulty"
    /\ Len(Hist) = 4
    /\ Hist[1].accuracy = 45 * Scale
    /\ \A i \in 2..4 : Hist[i].accuracy = 95 * Scale
    /\ returned = "hard"

\* C8: revision_needed is true exactly when the history is non-empty and
\* its last record has accuracy < 50; then difficulty is easy, otherwise
\* difficulty is predict_next_difficulty of the profile.
C8_RevisionOverride ==
    call = "adapt_content" =>
        /\ returned.revision_needed
              <=> (Hist # <<>> /\ Last(Hist).accuracy < 50 * Scale)
        /\ returned.revision_needed => returned.difficulty = "easy"
        /\ ~returned.revision_needed =>
              returned.difficulty = predict_next_difficulty(learners_data[Probe])

\* C8 witness: the override fires where the window says hard
C8_Witness ==
    /\ call = "adapt_content"
    /\ returned.revision_needed
    /\ returned.difficulty = "easy"
    /\ PredictorTable(Hist) = "hard"

\* C9: content_format is visual exactly for the Struggling tier,
\* enable_challenge_mode is true exactly for the Advanced tier and
\* provide_hints exactly for every other tier.
C9_TierFlags ==
    call = "adapt_content" =>
        LET tier == learners_data[Probe].classification
        IN  /\ returned.content_format \in {"visual", "text"}
            /\ returned.content_format = "visual" <=> tier = "Struggling Learner"
            /\ returned.enable_challenge_mode <=> tier = "Advanced Learner"
            /\ returned.provide_hints <=> tier # "Advanced Learner"

\* C9 witness: the New Learner tier gets text, no challenge mode, hints
C9_Witness ==
    /\ call = "adapt_content"
    /\ learners_data[Probe].classification = "New Learner"
    /\ returned.content_format = "text"
    /\ ~returned.enable_challenge_mode
    /\ returned.provide_hints

\* C10: a call of adapt_content leaves the profile as it was: history,
\* classification and the other fields.
C10_AdaptLeavesProfile ==
    [][call' = "adapt_content" => learners_data' = learners_data]_vars

\* C10 witness: the call returned with the override fired, the stored
\* classification still differing from the one of the history
C10_Witness ==
    /\ call = "adapt_content"
    /\ returned.revision_needed
    /\ learners_data[Probe].classification # classify_learner(learners_data[Probe])

\* C11: two calls of adapt_content in a row, the profile not mutated in
\* between, return configs that are equal in all five fields.
C11_AdaptTwiceEqual ==
    (call = "adapt_content" /\ previous # <<>>) =>
        /\ returned.difficulty = previous[1].difficulty
        /\ returned.content_format = previous[1].content_format
        /\ returned.enable_challenge_mode = previous[1].enable_challenge_mode
        /\ returned.provide_hints = previous[1].provide_hints
        /\ returned.revision_needed = previous[1].revision_needed

\* C11 witness: the second call returned, on a profile where the window
\* says medium and the override makes it easy
C11_Witness ==
    /\ call = "adapt_content"
    /\ previous # <<>>
    /\ returned.revision_needed
    /\ predict_next_difficulty(learners_data[Probe]) = "medium"

\* the population handed to cluster_learners and its learners with history
Population == DOMAIN learners_data
Qualifying == {name \in Population : learners_data[name].quiz_history # <<>>}
Feature(name) ==
    << mean_feature(learners_data[name].quiz_history, "accuracy"),
       mean_feature(learners_data[name].quiz_history, "avg_time") >>

\* C12: with fewer than 3 learners, or fewer than 3 learners with history,
\* cluster_learners returns the empty mapping and raises nothing.
C12_EmptyBelowFloor ==
    (/\ call = "cluster_learners"
     /\ Cardinality(Population) < 3 \/ Cardinality(Qualifying) < 3) =>
        /\ returned.raised = "none"
        /\ DOMAIN returned.value = {}

C12_Witness ==
    /\ call = "cluster_learners"
    /\ Cardinality(Population) = 4
    /\ Cardinality(Qualifying) = 2
    /\ returned = Returned(<<>>)

\* the population of C13: exactly 3 learners, their feature pairs being
\* (95,20), (94,22) and (40,90)
ThreeLearnerExample ==
    /\ call = "cluster_learners"
    /\ Cardinality(Population) = 3
    /\ Qualifying = Population
    /\ {Feature(name) : name \in Population} = { <<95, 20>>, <<94, 22>>, <<40, 90>> }

\* C13 as stated: on that population the learners with (95,20) and (94,22)
\* get the same cluster id and the learner with (40,90) a different one.
C13_SimilarTogether ==
    ThreeLearnerExample =>
        \A a, b, c \in Population :
            (Feature(a) = <<95, 20>> /\ Feature(b) = <<94, 22>>
                /\ Feature(c) = <<40, 90>>) =>
                /\ returned.raised = "none"
                /\ returned.value[a] = returned.value[b]
                /\ returned.value[c] # returned.value[a]

\* C13 amended: on that population the three learners get three pairwise
\* different cluster ids, on every invocation.
C13_EachItsOwnCluster ==
    ThreeLearnerExample =>
        /\ returned.raised = "none"
        /\ DOMAIN returned.value = Population
        /\ \A a, b \in Population :
              a # b => returned.value[a] # returned.value[b]

C13_Witness ==
    /\ ThreeLearnerExample
    /\ previous # <<>>
    /\ \E a \in Population : returned.value[a] = 2 /\ Feature(a) = <<95, 20>>

\* C14 as stated: with at least 3 learners with history, each of the ids
\* 0, 1, 2 is the cluster of at least one learner.
C14_AllThreeClustersUsed ==
    (call = "cluster_learners" /\ Cardinality(Qualifying) >= 3) =>
        /\ returned.raised = "none"
        /\ {returned.value[name] : name \in DOMAIN returned.value} = {0, 1, 2}

\* C15: the keys of a non-empty result are exactly the learners with
\* history, and every value is one of 0, 1, 2.
C15_KeysAndIds ==
    (call = "cluster_learners" /\ returned.raised = "none"
        /\ DOMAIN returned.value # {}) =>
        /\ DOMAIN returned.value = Qualifying
        /\ \A name \in DOMAIN returned.value : returned.value[name] \in {0, 1, 2}

C15_Witness ==
    /\ call = "cluster_learners"
    /\ Cardinality(Population) = 4
    /\ Cardinality(Qualifying) = 3
    /\ DOMAIN returned.value = Qualifying

\* C16: the three engine functions are total: whatever the history (empty,
\* a single record, longer), classify_learner returns one of the four
\* tiers, predict_next_difficulty one of the three difficulties, and
\* adapt_content a configuration whose difficulty is one of the three.
C16_EngineTotal ==
    /\ call = "classify_learner" => returned \in Tiers
    /\ call = "predict_next_difficulty" => returned \in Difficulties
    /\ call = "adapt_content" =>
          returned \in [difficulty : Difficulties,
                        content_format : {"visual", "text"},
                        enable_challenge_mode : BOOLEAN,
                        provide_hints : BOOLEAN,
                        revision_needed : BOOLEAN]

C16_Witness ==
    /\ call = "adapt_content"
    /\ Hist = <<>>
    /\ previous # <<>>
    /\ returned.difficulty = "easy"
    /\ learners_data[Probe].classification = "Advanced Learner"

\* the tier the feedback and the recommendations are generated for
GivenTier == learners_data[Probe].classification

\* the activity types of the catalogs, in the order of the source; New
\* Learner has no catalog of its own and is served the Average one
CatalogTypes(tier) ==
    CASE tier = "Struggling Learner" ->
            <<"Video Tutorial", "Guided Practice", "Revision Summary", "Focus Session">>
      [] tier = "Advanced Learner" ->
            <<"Challenge Problem", "Research Project", "Peer Teaching", "Advanced Topics">>
      [] tier \in {"Average Learner", "New Learner"} ->
            <<"Practice Set", "Concept Review", "Skill Builder", "Quick Quiz">>

\* C17: generate_recommendations returns exactly 4 entries for each of the
\* four tiers, in the order of the tier's catalog; the catalogs of
\* Struggling, Advanced and Average differ pairwise; a second call for the
\* same tier and topic returns the same sequence.
C17_FourFromCatalog ==
    call = "generate_recommendations" =>
        /\ Len(returned) = 4
        /\ [i \in 1..4 |-> returned[i].type] = CatalogTypes(GivenTier)
        /\ \A i \in 1..4 : returned[i].priority \in {"High", "Medium"}
        /\ \A a, b \in Tiers \ {"New Learner"} :
              a # b => generate_recommendations([classification |-> a],
                                                current_quiz.topic)
                       # generate_recommendations([classification |-> b],
                                                  current_quiz.topic)
        /\ previous # <<>> => returned = previous[1]

C17_Witness ==
    /\ call = "generate_recommendations"
    /\ GivenTier = "New Learner"
    /\ previous # <<>>
    /\ returned[1].title = <<"Calculus", " Mixed Practice">>

\* C18: the outcome of generate_personalized_feedback is the one for a
\* correct answer ("success" in the source) exactly when the chosen index
\* equals the correct index, and the one for an incorrect answer ("error")
\* otherwise, for every tier.
C18_OutcomeIsEquality ==
    call = "generate_personalized_feedback" =>
        returned[2] = IF GivenAnswer = AnsweredQuestion.correct
                      THEN "success" ELSE "error"

C18_Witness ==
    /\ call = "generate_personalized_feedback"
    /\ GivenTier = "Advanced Learner"
    /\ GivenAnswer = 0
    /\ AnsweredQuestion.correct = 1
    /\ returned[2] = "error"

CelebratoryPool(tier) ==
    {celebratory_messages(tier)[i] : i \in DOMAIN celebratory_messages(tier)}

\* C19: on a correct answer the message is a member of the pool of the
\* given tier, the outcome is the same whichever member was drawn, and the
\* pool of every tier has at least 3 messages.
C19_CorrectFromPool ==
    (call = "generate_personalized_feedback"
        /\ GivenAnswer = AnsweredQuestion.correct) =>
        /\ returned[1] \in CelebratoryPool(GivenTier)
        /\ returned[2] = "success"
        /\ \A tier \in Tiers : Cardinality(CelebratoryPool(tier)) >= 3

C19_Witness ==
    /\ call = "generate_personalized_feedback"
    /\ GivenAnswer = AnsweredQuestion.correct
    /\ GivenTier = "New Learner"
    /\ returned[1] = <<"Yes! You're getting stronger at this!">>
    /\ previous # <<>>
    /\ previous[1][1] = <<"Wonderful! This is real progress!">>

\* C20: on an incorrect answer the message holds the hint of the question,
\* or the default hint when the question has none; it opens with the
\* encouraging template for the Struggling tier and with one other template
\* for the three other tiers; it is in no tier's celebratory pool.
C20_IncorrectEmbedsHint ==
    (call = "generate_personalized_feedback"
        /\ GivenAnswer # AnsweredQuestion.correct) =>
        /\ \E i \in DOMAIN returned[1] :
              returned[1][i] =
                  IF "hint" \in DOMAIN AnsweredQuestion THEN AnsweredQuestion.hint
                  ELSE "Try to break down the problem step by step."
        /\ returned[1][1] =
              IF GivenTier = "Struggling Learner"
              THEN "Not quite right, but don't give up! Here's a hint: "
              ELSE "Not correct. Think about: "
        /\ \A tier \in Tiers : returned[1] \notin CelebratoryPool(tier)

C20_Witness ==
    /\ call = "generate_personalized_feedback"
    /\ GivenAnswer # AnsweredQuestion.correct
    /\ "hint" \notin DOMAIN AnsweredQuestion
    /\ GivenTier = "Struggling Learner"
    /\ returned[1][2] = "Try to break down the problem step by step."

\* the step in which Start Quiz stores a new quiz
QuizStarts == ~quiz_started /\ quiz_started'

\* C21: the questions a quiz starts with are the list of the loaded
\* override catalog for the chosen topic and difficulty when that list is
\* present and non-empty, and the built-in list of that pair in every other
\* case (no override loaded, pair absent from it, or its list empty).
C21_OverrideWhenPresent ==
    [][QuizStarts =>
          LET topic == current_quiz'.topic
              difficulty == current_quiz'.difficulty
              override == custom_questions_db
              present == /\ override # NoQuestions
                         /\ topic \in DOMAIN override
                         /\ difficulty \in DOMAIN override[topic]
                         /\ override[topic][difficulty] # <<>>
          IN  current_quiz'.questions =
                  IF present THEN override[topic][difficulty]
                  ELSE questions_db[topic][difficulty]]_vars

\* C21 witness: a quiz on a pair with an override list runs on that list,
\* which differs from the built-in one
C21_Witness ==
    /\ quiz_started
    /\ \E file \in CustomQuestionFiles :
          /\ custom_questions_db = file
          /\ current_quiz.topic = "Statistics"
          /\ current_quiz.difficulty = "hard"
          /\ current_quiz.questions = file["Statistics"]["hard"]
          /\ current_quiz.questions # questions_db["Statistics"]["hard"]

\* old is a prefix of new: the earlier records unchanged and in order
IsPrefix(old, new) ==
    /\ Len(old) <= Len(new)
    /\ SubSeq(new, 1, Len(old)) = old

\* every learner present before and after the step keeps its records
HistoriesKept ==
    \A name \in DOMAIN learners_data \cap DOMAIN learners_data' :
        IsPrefix(learners_data[name].quiz_history,
                 learners_data'[name].quiz_history)

\* C22 as stated: every step of the application, loading custom learner
\* profiles included, keeps the history of each learner who stays in the
\* population as a prefix of the new history.
C22_AppendOnlyAllSteps == [][HistoriesKept]_vars

\* C22 amended: every step other than loading custom learner profiles
\* (quiz completion, quiz-history import, learner selection and the other
\* interactions) keeps the history of each learner who stays in the
\* population as a prefix of the new history.
C22_AppendOnlyButLoad ==
    [][(\E custom_learners \in CustomLearnerFiles : UseThisData(custom_learners))
       \/ HistoriesKept]_vars

\* C22 witness: Carol's sample history after an import and a completed quiz
C22_Witness ==
    /\ "Carol Williams" \in DOMAIN learners_data
    /\ LET quiz_history == learners_data["Carol Williams"].quiz_history
       IN  /\ Len(quiz_history) = 5
           /\ SubSeq(quiz_history, 1, 3)
                 = generate_sample_learners["Carol Williams"].quiz_history
           /\ quiz_history[4].topic = "General"
           /\ quiz_history[5].topic = "Calculus"

\* the history under test has the given rows of
\* << accuracy, avg_time, hints_used, retries >>
HistoryIs(rows) ==
    /\ Len(Hist) = Len(rows)
    /\ \A i \in 1..Len(rows) :
          /\ Hist[i].accuracy = rows[i][1] * Scale
          /\ Hist[i].avg_time = rows[i][2] * Scale
          /\ Hist[i].hints_used = rows[i][3]
          /\ Hist[i].retries = rows[i][4]

\* C23: for the history {92,28,0,0}, {95,25,0,0}, {94,26,0,0} the classifier
\* returns Advanced Learner, the predictor hard, and adapt_content on the
\* profile of that tier the configuration hard / text / challenge mode on /
\* hints off / no revision.
C23_AdvancedScenario ==
    HistoryIs(<< <<92, 28, 0, 0>>, <<95, 25, 0, 0>>, <<94, 26, 0, 0>> >>) =>
        /\ call = "classify_learner" => returned = "Advanced Learner"
        /\ call = "predict_next_difficulty" => returned = "hard"
        /\ (call = "adapt_content"
              /\ learners_data[Probe].classification = "Advanced Learner") =>
              returned = [difficulty |-> "hard", content_format |-> "text",
                          enable_challenge_mode |-> TRUE, provide_hints |-> FALSE,
                          revision_needed |-> FALSE]

C23_Witness ==
    /\ HistoryIs(<< <<92, 28, 0, 0>>, <<95, 25, 0, 0>>, <<94, 26, 0, 0>> >>)
    /\ call = "adapt_content"
    /\ learners_data[Probe].classification = "Advanced Learner"
    /\ returned.enable_challenge_mode

\* C24: for the single-record history {45,85,8,3} the classifier returns
\* Struggling Learner, the predictor easy, and adapt_content a configuration
\* with revision_needed set and difficulty easy.
C24_StrugglingScenario ==
    HistoryIs(<< <<45, 85, 8, 3>> >>) =>
        /\ call = "classify_learner" => returned = "Struggling Learner"
        /\ call = "predict_next_difficulty" => returned = "easy"
        /\ call = "adapt_content" =>
              returned.revision_needed /\ returned.difficulty = "easy"

C24_Witness ==
    /\ HistoryIs(<< <<45, 85, 8, 3>> >>)
    /\ call = "predict_next_difficulty"
    /\ returned = "easy"
    /\ previous = << "easy" >>

\* the completion view of tab 2 is on the page
CompletionShown ==
    Rendered /\ quiz_completed(quiz_started, current_quiz, current_question_index)

\* the step in which the last question of a quiz is answered
QuizCompletes ==
    /\ quiz_started
    /\ current_question_index < Len(current_quiz.questions)
    /\ quiz_started'
    /\ current_question_index' >= Len(current_quiz'.questions)

\* a step that brings records in from a file
LoadsFile ==
    \/ \E custom_learners \in CustomLearnerFiles : UseThisData(custom_learners)
    \/ \E quiz_history \in QuizHistoryFiles : ImportQuizHistory(quiz_history)

\* C25 as stated: a completed quiz adds exactly one record.  The step that
\* answers the last question adds one record to the history of the selected
\* learner, and while the completion view is shown no interaction (page
\* run, other buttons, chat message, Take Another Quiz) adds another.
C25_OneRecordPerQuiz ==
    /\ [][QuizCompletes =>
             Len(learners_data'[current_learner'].quiz_history)
                = Len(learners_data[current_learner].quiz_history) + 1]_vars
    /\ [][(CompletionShown /\ ~LoadsFile) =>
             \A name \in DOMAIN learners_data :
                 learners_data'[name].quiz_history
                    = learners_data[name].quiz_history]_vars

\* C26 as stated: selecting another learner while a quiz is in progress or
\* its completion view is shown leaves the profile of the learner selected
\* (history and classification) as it was: the quiz of the learner selected
\* before is not recorded for the new one.
C26_RecordStaysWithStarter ==
    [][(quiz_started /\ \E name \in SelectChoices : SelectLearner(name)) =>
          learners_data'[current_learner'] = learners_data[current_learner']]_vars

\* C27 as stated: while the quiz start form is shown, the difficulty it
\* pre-selects (predict_next_difficulty of the selected profile) equals the
\* difficulty of adapt_content of the same profile shown in the sidebar.
C27_StartFormAgreesWithAdapter ==
    (Rendered /\ ~quiz_started) =>
        predict_next_difficulty(learners_data[current_learner])
            = adapt_content(learners_data[current_learner]).difficulty

\* every accuracy of the history under test lies in 0..100
RangeValid ==
    \A i \in 1..Len(Hist) : Hist[i].accuracy \in 0..(100 * Scale)

\* C28: for a range-valid history whose most recent accuracy is below 50
\* (the revision override fires), predict_next_difficulty is medium or
\* easy, never hard, and adapt_content returns easy.
C28_OverrideNeverFromHard ==
    (RangeValid /\ Hist # <<>> /\ Last(Hist).accuracy < 50 * Scale) =>
        /\ call = "predict_next_difficulty" => returned \in {"medium", "easy"}
        /\ call = "adapt_content" =>
              /\ returned.difficulty = "easy"
              /\ predict_next_difficulty(learners_data[Probe]) # "hard"

C28_Witness ==
    /\ RangeValid
    /\ Len(Hist) = MaxLen
    /\ Last(Hist).accuracy < 50 * Scale
    /\ call = "predict_next_difficulty"
    /\ returned = "medium"

\* C29: while a quiz is active its question list is non-empty, the numbers
\* of recorded answers and of recorded times both equal
\* current_question_index, and that index is at most the number of
\* questions; at completion the accuracy of the record lies in 0..100.
C29_QuizCounters ==
    quiz_started =>
        /\ current_quiz # NoQuiz
        /\ Len(current_quiz.questions) > 0
        /\ Len(current_quiz.answers) = current_question_index
        /\ Len(current_quiz.times) = current_question_index
        /\ current_question_index <= Len(current_quiz.questions)
        /\ current_question_index = Len(current_quiz.questions) =>
              new_quiz_record(current_quiz).accuracy \in 0..(100 * Scale)

C29_Witness ==
    /\ quiz_started
    /\ Len(current_quiz.questions) = 2
    /\ current_question_index = 2
    /\ current_quiz.answers[1] = current_quiz.questions[1].correct
    /\ current_quiz.answers[2] # current_quiz.questions[2].correct
    /\ new_quiz_record(current_quiz).accuracy = 50 * Scale

\* the step in which a quiz is left before its last question is answered
QuizExits ==
    /\ quiz_started
    /\ current_question_index < Len(current_quiz.questions)
    /\ ~quiz_started'

\* C30: exiting a quiz before its last answer changes no learner's history
\* or classification, whatever was answered or hinted before; and every
\* quiz that starts, also after an exit, starts at index 0 without answers,
\* times or hints.
C30_ExitLeavesNoTrace ==
    /\ [][QuizExits => learners_data' = learners_data]_vars
    /\ [][QuizStarts =>
             /\ current_question_index' = 0
             /\ current_quiz'.answers = <<>>
             /\ current_quiz'.times = <<>>
             /\ current_quiz'.hints_used = 0]_vars

\* C30 witness: a quiz was left after one answer: no quiz is active, the
\* index still counts the answer, and no record was added (a completed
\* quiz would have added one)
C30_Witness ==
    /\ learners_data = generate_sample_learners
    /\ ~quiz_started
    /\ current_quiz = NoQuiz
    /\ current_question_index = 1
    /\ custom_questions_db # NoQuestions

=============================================================================
